---- MODULE Spec2Model ----
(***************************************************************************)
(* The two table extractors of Mostlylucid.DocSummarizer.Core:             *)
(*   Resources/TableExtractors/extract_pdf_tables.py                       *)
(*   Resources/TableExtractors/extract_docx_tables.py                      *)
(* A run of either command-line tool is a state machine: argument parsing, *)
(* page-list parsing (PDF), opening the document, the loop over pages or   *)
(* tables, and the final print.  Strings are sequences of one-character    *)
(* strings; Python floats are IEEE-754 doubles, modelled bit for bit.      *)
(***************************************************************************)
EXTENDS Integers, Sequences, FiniteSets, TLC

\* ------------------------------------------------------------------------
\* Strings
\* ------------------------------------------------------------------------

\* whitespace as str.strip() sees it (the alphabet of the model has one blank)
IsSpace(c) == c = " "

RECURSIVE LStrip(_)
LStrip(s) == IF s # <<>> /\ IsSpace(Head(s)) THEN LStrip(Tail(s)) ELSE s

RECURSIVE RStrip(_)
RStrip(s) ==
    IF s # <<>> /\ IsSpace(s[Len(s)]) THEN RStrip(SubSeq(s, 1, Len(s) - 1)) ELSE s

\* str.strip()
Strip(s) == RStrip(LStrip(s))

\* str.replace(c, '')
Remove(s, c) == SelectSeq(s, LAMBDA x : x # c)

IsDigit(c) == c \in {"0", "1", "2", "3", "4", "5", "6", "7", "8", "9"}

DigitVal(c) ==
    CASE c = "0" -> 0 [] c = "1" -> 1 [] c = "2" -> 2 [] c = "3" -> 3
      [] c = "4" -> 4 [] c = "5" -> 5 [] c = "6" -> 6 [] c = "7" -> 7
      [] c = "8" -> 8 [] c = "9" -> 9

\* float(s) succeeds: [sign] digits [. [digits]] | [sign] . digits, between
\* optional blanks (no exponent, inf or nan can be spelled in the alphabet).
\* st: "S" start, "G" after the sign, "I" integer digits, "P" point after
\* digits, "Q" point without digits, "F" fraction digits.
RECURSIVE FloatScan(_, _)
FloatScan(s, st) ==
    IF s = <<>> THEN st \in {"I", "P", "F"}
    ELSE LET c == Head(s) r == Tail(s) IN
         CASE st = "S" ->
                 IF c \in {"+", "-"} THEN FloatScan(r, "G")
                 ELSE IF IsDigit(c) THEN FloatScan(r, "I")
                 ELSE IF c = "." THEN FloatScan(r, "Q") ELSE FALSE
           [] st = "G" ->
                 IF IsDigit(c) THEN FloatScan(r, "I")
                 ELSE IF c = "." THEN FloatScan(r, "Q") ELSE FALSE
           [] st = "I" ->
                 IF IsDigit(c) THEN FloatScan(r, "I")
                 ELSE IF c = "." THEN FloatScan(r, "P") ELSE FALSE
           [] st \in {"P", "Q", "F"} ->
                 IF IsDigit(c) THEN FloatScan(r, "F") ELSE FALSE

FloatParses(s) == FloatScan(Strip(s), "S")

\* is_numeric(value)
is_numeric(value) ==
    IF value = <<>> \/ Strip(value) = <<>> THEN FALSE
    ELSE LET cleaned == Strip(Remove(Remove(Remove(value, ","), "$"), "%"))
         IN  FloatParses(cleaned)

\* int(s): blanks, an optional sign, one or more digits
RECURSIVE DigitsValue(_, _)
DigitsValue(s, acc) ==
    IF s = <<>> THEN acc ELSE DigitsValue(Tail(s), 10 * acc + DigitVal(Head(s)))

AllDigits(s) == s # <<>> /\ \A i \in 1..Len(s) : IsDigit(s[i])

IntParses(s) ==
    LET t == Strip(s) IN
    IF t # <<>> /\ Head(t) \in {"+", "-"} THEN AllDigits(Tail(t)) ELSE AllDigits(t)

IntValue(s) ==
    LET t == Strip(s) IN
    IF Head(t) = "-" THEN 0 - DigitsValue(Tail(t), 0)
    ELSE IF Head(t) = "+" THEN DigitsValue(Tail(t), 0)
    ELSE DigitsValue(t, 0)

\* ------------------------------------------------------------------------
\* IEEE-754 doubles.  A natural number is its binary digits, most
\* significant first (<<>> is 0); a double is m * 2^e with m of 53 digits and
\* leading digit 1, or zero.  Every operation rounds to nearest, ties to even.
\* Sums and products are computed on base-4096 limbs, least significant first.
\* ------------------------------------------------------------------------

Zeros(k) == [i \in 1..k |-> 0]

\* the w least significant binary digits of the number v
NumBits(v, w) == [i \in 1..w |-> (v \div (2 ^ (w - i))) % 2]

BStrip(b) ==
    IF \A i \in 1..Len(b) : b[i] = 0 THEN <<>>
    ELSE LET lead == CHOOSE i \in 1..Len(b) :
                        b[i] = 1 /\ \A j \in 1..(i - 1) : b[j] = 0
         IN  SubSeq(b, lead, Len(b))

BShl(b, k) == IF b = <<>> THEN <<>> ELSE b \o Zeros(k)

\* the binary digit of weight 2^p
BitAt(b, p) == IF p >= 0 /\ p < Len(b) THEN b[Len(b) - p] ELSE 0

RECURSIVE BitsVal(_)
BitsVal(b) ==
    IF b = <<>> THEN 0 ELSE 2 * BitsVal(SubSeq(b, 1, Len(b) - 1)) + b[Len(b)]

ToLimbs(b) ==
    [j \in 1..((Len(b) + 11) \div 12) |->
        BitsVal([t \in 1..12 |-> BitAt(b, 12 * (j - 1) + 12 - t)])]

FromLimbs(l) ==
    BStrip([i \in 1..(12 * Len(l)) |->
        LET p == 12 * Len(l) - i
        IN  (l[(p \div 12) + 1] \div (2 ^ (p % 12))) % 2])

\* carry propagation over column sums
RECURSIVE Norm(_, _)
Norm(cols, cin) ==
    IF cols = <<>>
    THEN (IF cin = 0 THEN <<>> ELSE <<cin % 4096>> \o Norm(<<>>, cin \div 4096))
    ELSE <<(Head(cols) + cin) % 4096>>
             \o Norm(Tail(cols), (Head(cols) + cin) \div 4096)

LimbOr0(l, j) == IF j <= Len(l) THEN l[j] ELSE 0

BAdd(a, b) ==
    LET la == ToLimbs(a)
        lb == ToLimbs(b)
        ln == IF Len(la) > Len(lb) THEN Len(la) ELSE Len(lb)
    IN  FromLimbs(Norm([j \in 1..ln |-> LimbOr0(la, j) + LimbOr0(lb, j)], 0))

\* sum over i of la[i] * lb[k + 1 - i]
RECURSIVE ColSum(_, _, _, _)
ColSum(la, lb, k, i) ==
    IF i > Len(la) THEN 0
    ELSE (IF k + 1 - i >= 1 /\ k + 1 - i <= Len(lb)
          THEN la[i] * lb[k + 1 - i] ELSE 0) + ColSum(la, lb, k, i + 1)

BMul(a, b) ==
    IF a = <<>> \/ b = <<>> THEN <<>>
    ELSE LET la == ToLimbs(a)
             lb == ToLimbs(b)
         IN  FromLimbs(Norm([k \in 1..(Len(la) + Len(lb) - 1) |->
                                 ColSum(la, lb, k, 1)], 0))

\* a <= b, both without leading zeros
BLe(a, b) ==
    IF Len(a) # Len(b) THEN Len(a) < Len(b)
    ELSE a = b \/ \E i \in 1..Len(a) :
                     a[i] < b[i] /\ \A j \in 1..(i - 1) : a[j] = b[j]

DZero == [m |-> <<>>, e |-> 0]

\* the double nearest to b0 * 2^e0 (plus a positive remainder below one unit
\* of b0 when sticky), ties to even
RoundBits(b0, e0, sticky) ==
    LET rb   == BStrip(b0)
        rlen == Len(rb)
    IN  IF rlen = 0 THEN DZero
        ELSE IF rlen <= 53
        THEN [m |-> rb \o Zeros(53 - rlen), e |-> e0 - (53 - rlen)]
        ELSE LET hi    == SubSeq(rb, 1, 53)
                 guard == rb[54]
                 rest  == sticky \/ \E i \in 55..rlen : rb[i] = 1
                 up    == guard = 1 /\ (rest \/ rb[53] = 1)
                 hi2   == IF up THEN BAdd(hi, <<1>>) ELSE hi
             IN  IF Len(hi2) = 54
                 THEN [m |-> SubSeq(hi2, 1, 53), e |-> e0 + (rlen - 53) + 1]
                 ELSE [m |-> hi2, e |-> e0 + (rlen - 53)]

\* k more base-4096 digits of dr / dq (dr < dq), then the remainder
RECURSIVE LongDiv(_, _, _)
LongDiv(dr, dq, k) ==
    IF k = 0 THEN <<dr>>
    ELSE <<(dr * 4096) \div dq>> \o LongDiv((dr * 4096) % dq, dq, k - 1)

\* num / den of two ints as Python's true division gives it
\* (0 <= num < 2^30, 0 < den < 2^19)
DDiv(num, den) ==
    IF num = 0 THEN DZero
    ELSE LET qr   == LongDiv(num % den, den, 8)
             frac == [i \in 1..96 |->
                         (qr[((i - 1) \div 12) + 1] \div (2 ^ (11 - ((i - 1) % 12)))) % 2]
         IN  RoundBits(NumBits(num \div den, 30) \o frac, 0 - 96, qr[9] # 0)

DFromInt(n) == DDiv(n, 1)

DAdd(x, y) ==
    IF x.m = <<>> THEN y
    ELSE IF y.m = <<>> THEN x
    ELSE LET ea == IF x.e < y.e THEN x.e ELSE y.e
         IN  RoundBits(BAdd(BShl(x.m, x.e - ea), BShl(y.m, y.e - ea)), ea, FALSE)

DMul(x, y) ==
    IF x.m = <<>> \/ y.m = <<>> THEN DZero
    ELSE RoundBits(BMul(x.m, y.m), x.e + y.e, FALSE)

DLe(x, y) ==
    IF x.m = <<>> THEN TRUE
    ELSE IF y.m = <<>> THEN FALSE
    ELSE LET el == IF x.e < y.e THEN x.e ELSE y.e
         IN  BLe(BShl(x.m, x.e - el), BShl(y.m, y.e - el))

\* min(x, y) of Python: y only when y < x
DMin(x, y) == IF DLe(x, y) THEN x ELSE y

\* ------------------------------------------------------------------------
\* Scoring and header detection
\* ------------------------------------------------------------------------

\* the literals of the two estimators, as the doubles Python reads them
PdfBase == DDiv(1, 2)
PdfFillWeight == DDiv(1, 5)
DocxBase == DDiv(3, 5)
DocxFillWeight == DDiv(1, 10)
ConsistencyBonus == DDiv(3, 10)
HeaderRatio == DDiv(3, 5)
DOne == DDiv(1, 1)

\* the confidence after the column-consistency step
PdfBasePlusBonus == DAdd(PdfBase, ConsistencyBonus)
DocxBasePlusBonus == DAdd(DocxBase, ConsistencyBonus)

RECURSIVE SumLens(_)
SumLens(rows) == IF rows = <<>> THEN 0 ELSE Len(Head(rows)) + SumLens(Tail(rows))

CellFilled(cell) == Strip(cell) # <<>>

\* sum(1 for cell in row if cell.strip())
CountFilled(row) == Len(SelectSeq(row, CellFilled))

RECURSIVE SumFilled(_)
SumFilled(rows) ==
    IF rows = <<>> THEN 0
    ELSE CountFilled(Head(rows)) + SumFilled(Tail(rows))

\* len(set(col_counts)) == 1
ConsistentCols(rows) == Cardinality({Len(rows[i]) : i \in 1..Len(rows)}) = 1

\* fill_rate = non_empty_cells / total_cells if total_cells > 0 else 0
FillRate(rows) ==
    IF SumLens(rows) > 0 THEN DDiv(SumFilled(rows), SumLens(rows)) ELSE DZero

\* estimate_confidence(rows, page)
estimate_confidence(rows) ==
    IF rows = <<>> THEN DZero
    ELSE DMin(DOne,
              DAdd(IF ConsistentCols(rows) THEN PdfBasePlusBonus ELSE PdfBase,
                   DMul(FillRate(rows), PdfFillWeight)))

\* estimate_confidence_docx(rows, table)
estimate_confidence_docx(rows) ==
    IF rows = <<>> THEN DZero
    ELSE DMin(DOne,
              DAdd(IF ConsistentCols(rows) THEN DocxBasePlusBonus ELSE DocxBase,
                   DMul(FillRate(rows), DocxFillWeight)))

\* is_numeric of extract_docx_tables.py
is_numeric_docx(value) ==
    IF value = <<>> \/ Strip(value) = <<>> THEN FALSE
    ELSE LET cleaned == Strip(Remove(Remove(Remove(value, ","), "$"), "%"))
         IN  FloatParses(cleaned)

NotNumeric(cell) == ~is_numeric(cell)

NotNumericDocx(cell) == ~is_numeric_docx(cell)

\* non_numeric_count = sum(1 for cell in first_row if not is_numeric(cell))
non_numeric_count(first_row) == Len(SelectSeq(first_row, NotNumeric))

non_numeric_count_docx(first_row) == Len(SelectSeq(first_row, NotNumericDocx))

\* detect_header with `>` for `>=`
detect_header_strict(rows) ==
    IF Len(rows) < 2 THEN FALSE
    ELSE ~DLe(DFromInt(non_numeric_count(rows[1])),
              DMul(DFromInt(Len(rows[1])), HeaderRatio))

\* detect_header(rows): non_numeric_count >= len(first_row) * 0.6
detect_header(rows) ==
    IF Len(rows) < 2 THEN FALSE
    ELSE DLe(DMul(DFromInt(Len(rows[1])), HeaderRatio),
             DFromInt(non_numeric_count(rows[1])))

\* detect_header_docx(rows, table)
detect_header_docx(rows) ==
    IF Len(rows) < 2 THEN FALSE
    ELSE DLe(DMul(DFromInt(Len(rows[1])), HeaderRatio),
             DFromInt(non_numeric_count_docx(rows[1])))

\* estimate_section with `<` for `<=`
estimate_section_below(table_idx, total_tables) ==
    IF total_tables < 5 THEN table_idx + 1 ELSE (table_idx \div 5) + 1

\* estimate_section(table_idx, total_tables)
estimate_section(table_idx, total_tables) ==
    IF total_tables <= 5 THEN table_idx + 1 ELSE (table_idx \div 5) + 1

\* ------------------------------------------------------------------------
\* The loop bodies of the two extractors.  A raw PDF cell is
\* [some, text] (some = FALSE is None); a raw DOCX cell is its text.
\* ------------------------------------------------------------------------

\* `cell and str(cell).strip()`
CellTruthy(cell) == cell.some /\ cell.text # <<>> /\ Strip(cell.text) # <<>>

\* `row and any(cell and str(cell).strip() for cell in row)`
PdfRowKept(row) == row # <<>> /\ \E i \in 1..Len(row) : CellTruthy(row[i])

PdfNonEmptyRows(table) == SelectSeq(table, PdfRowKept)

\* the cleaning step without .strip()
CleanRowUnstripped(row) ==
    [i \in 1..Len(row) |-> IF row[i].some THEN row[i].text ELSE <<>>]

\* str(cell).strip() if cell is not None else ""
CleanRow(row) ==
    [i \in 1..Len(row) |-> IF row[i].some THEN Strip(row[i].text) ELSE <<>>]

PdfCleanedRows(table) ==
    LET kept == PdfNonEmptyRows(table)
    IN  [i \in 1..Len(kept) |-> CleanRow(kept[i])]

\* the three `continue` tests of the PDF loop body, negated
PdfAccepts(table, min_rows, min_cols) ==
    LET kept == PdfNonEmptyRows(table)
        col_count == IF kept # <<>> THEN Len(kept[1]) ELSE 0
    IN  /\ ~(table = <<>> \/ Len(table) < min_rows)
        /\ ~(Len(kept) < min_rows)
        /\ ~(col_count < min_cols)

PdfRecord(page, page_num, table_idx, table) ==
    LET cleaned_rows == PdfCleanedRows(table)
    IN  [page        |-> page_num,
         boundingBox |-> "None",
         rows        |-> cleaned_rows,
         hasHeader   |-> detect_header(cleaned_rows),
         confidence  |-> estimate_confidence(cleaned_rows),
         metadata    |-> [pageWidth  |-> page.width,
                          pageHeight |-> page.height,
                          tableIndex |-> table_idx]]

Indices(n) == [i \in 1..n |-> i]

\* what one iteration of `for page_idx in page_indices` appends
PdfPageTables(page, page_num, min_rows, min_cols) ==
    LET hit == SelectSeq(Indices(Len(page.tables)),
                         LAMBDA i : PdfAccepts(page.tables[i], min_rows, min_cols))
    IN  [k \in 1..Len(hit) |->
            PdfRecord(page, page_num, hit[k] - 1, page.tables[hit[k]])]

\* cell.text.strip() over table.rows
DocxRowsData(table) ==
    [i \in 1..Len(table.rows) |->
        [j \in 1..Len(table.rows[i]) |-> Strip(table.rows[i][j])]]

\* any(cell.strip() for cell in row)
DocxRowKept(row) == \E i \in 1..Len(row) : Strip(row[i]) # <<>>

DocxNonEmptyRows(table) == SelectSeq(DocxRowsData(table), DocxRowKept)

DocxAccepts(table, min_rows, min_cols) ==
    LET kept == DocxNonEmptyRows(table)
        col_count == IF kept # <<>> THEN Len(kept[1]) ELSE 0
    IN  /\ ~(Len(kept) < min_rows)
        /\ ~(col_count < min_cols)

DocxRecord(table, table_idx, total_tables) ==
    LET non_empty_rows == DocxNonEmptyRows(table)
    IN  [page        |-> estimate_section(table_idx, total_tables),
         boundingBox |-> "None",
         rows        |-> non_empty_rows,
         hasHeader   |-> detect_header_docx(non_empty_rows),
         confidence  |-> estimate_confidence_docx(non_empty_rows),
         metadata    |-> [tableIndex |-> table_idx,
                          rowCount   |-> Len(table.rows),
                          colCount   |-> table.columns]]

\* ------------------------------------------------------------------------
\* The command line
\* ------------------------------------------------------------------------

\* str.split(sep)
RECURSIVE Split(_, _, _)
Split(s, sep, cur) ==
    IF s = <<>> THEN <<cur>>
    ELSE IF Head(s) = sep THEN <<cur>> \o Split(Tail(s), sep, <<>>)
    ELSE Split(Tail(s), sep, Append(cur, Head(s)))

PageTokens(text) == Split(text, ",", <<>>)

\* argparse with type=int: the option is absent or int() takes its text
IntArgOk(opt) == ~opt.given \/ IntParses(opt.text)

IntArg(opt, default) == IF opt.given THEN IntValue(opt.text) ELSE default

\* parser.parse_args() accepts the command line
ArgsAccepted(av) == av.input /\ IntArgOk(av.minRows) /\ IntArgOk(av.minCols)

\* the chosen pages sorted and without repeats
PageIndicesSorted(pgs, npages) ==
    IF pgs # <<>>
    THEN LET want == {pgs[i] - 1 : i \in 1..Len(pgs)} \cap 0..(npages - 1)
         IN  [k \in 1..Cardinality(want) |->
                 CHOOSE x \in want : Cardinality({y \in want : y < x}) = k - 1]
    ELSE [i \in 1..npages |-> i - 1]

\* [p - 1 for p in pages if 0 <= p - 1 < len(pdf.pages)], or every page
PageIndices(pgs, npages) ==
    IF pgs # <<>>
    THEN LET inr == SelectSeq(pgs, LAMBDA p : 0 <= p - 1 /\ p - 1 < npages)
         IN  [i \in 1..Len(inr) |-> inr[i] - 1]
    ELSE [i \in 1..npages |-> i - 1]

JsonError(msg) == [json |-> TRUE, text |-> msg]

UsageText == [json |-> FALSE, text |-> "usage"]

\* ------------------------------------------------------------------------
\* A run of one of the two tools
\* ------------------------------------------------------------------------

VARIABLES
    tool,              \* "pdf" or "docx": which script runs
    lib,               \* whether pdfplumber / python-docx can be imported
    argv,              \* the command line
    doc,               \* what the --input path holds
    pc,                \* "import", "args", "pages", "open", "loop", "done"
    args,              \* the parsed min_rows and min_cols
    pages,             \* the parsed page list (<<>> is None)
    page_indices,      \* the pages of the PDF loop, 0-indexed
    pos,               \* the next element of the loop, from 1
    extracted_tables,  \* the records appended so far
    opened,            \* whether the document was handed to the parser
    stdout,            \* what was printed to standard output
    stderr,            \* what was printed to standard error
    exit               \* <<>> while running, then <<exit code>>

vars == <<tool, lib, argv, doc, pc, args, pages, page_indices, pos,
          extracted_tables, opened, stdout, stderr, exit>>

inputs == <<tool, lib, argv, doc>>

\* print(json.dumps({"error": ...}), file=sys.stderr); sys.exit(1)
Fail(msg) ==
    /\ stderr' = Append(stderr, JsonError(msg))
    /\ exit' = <<1>>
    /\ pc' = "done"

\* the import of the parsing library at the top of either script
Import ==
    /\ pc = "import"
    /\ IF lib
       THEN pc' = "args" /\ UNCHANGED <<stderr, exit>>
       ELSE Fail("not installed")
    /\ UNCHANGED <<inputs, args, pages, page_indices, pos, extracted_tables,
                   opened, stdout>>

\* parser.parse_args(): argparse prints its usage and exits with status 2 on a
\* missing --input or a --min-rows / --min-cols that int() rejects
ParseArgs ==
    /\ pc = "args"
    /\ IF ArgsAccepted(argv)
       THEN /\ args' = [min_rows |-> IntArg(argv.minRows, 2),
                        min_cols |-> IntArg(argv.minCols, 2)]
            /\ pc' = IF tool = "pdf" THEN "pages" ELSE "open"
            /\ UNCHANGED <<stderr, exit>>
       ELSE /\ stderr' = Append(stderr, UsageText)
            /\ exit' = <<2>>
            /\ pc' = "done"
            /\ UNCHANGED args
    /\ UNCHANGED <<inputs, pages, page_indices, pos, extracted_tables, opened,
                   stdout>>

\* the page list parsed with the tokens int() rejects left out
ParsePagesSkipBad ==
    /\ pc = "pages"
    /\ LET good == SelectSeq(PageTokens(argv.pages.text), IntParses)
       IN  pages' = [i \in 1..Len(good) |-> IntValue(good[i])]
    /\ pc' = "open"
    /\ UNCHANGED <<inputs, args, page_indices, pos, extracted_tables, opened,
                   stdout, stderr, exit>>

\* the page list of the PDF tool: `if args.pages:` then int() of every token
ParsePages ==
    /\ pc = "pages"
    /\ IF argv.pages.given /\ argv.pages.text # <<>>
       THEN LET toks == PageTokens(argv.pages.text)
            IN  IF \A i \in 1..Len(toks) : IntParses(toks[i])
                THEN /\ pages' = [i \in 1..Len(toks) |-> IntValue(toks[i])]
                     /\ pc' = "open"
                     /\ UNCHANGED <<stderr, exit>>
                ELSE /\ Fail("Invalid page numbers")
                     /\ UNCHANGED pages
       ELSE /\ pages' = <<>>
            /\ pc' = "open"
            /\ UNCHANGED <<stderr, exit>>
    /\ UNCHANGED <<inputs, args, page_indices, pos, extracted_tables, opened,
                   stdout>>

\* `with pdfplumber.open(pdf_path) as pdf:` and the choice of the pages
PdfOpen ==
    /\ pc = "open" /\ tool = "pdf"
    /\ opened' = TRUE
    /\ IF doc.open = "ok"
       THEN /\ page_indices' = PageIndices(pages, Len(doc.pages))
            /\ pos' = 1
            /\ pc' = "loop"
            /\ UNCHANGED <<stderr, exit>>
       ELSE /\ Fail(IF doc.open = "missing" THEN "File not found" ELSE "str(e)")
            /\ UNCHANGED <<page_indices, pos>>
    /\ UNCHANGED <<inputs, args, pages, extracted_tables, stdout>>

\* one iteration of `for page_idx in page_indices`
PdfPage ==
    /\ pc = "loop" /\ tool = "pdf"
    /\ pos <= Len(page_indices)
    /\ LET page_idx == page_indices[pos]
           page == doc.pages[page_idx + 1]
       IN  IF page.fails
           THEN /\ Fail("str(e)")
                /\ UNCHANGED <<extracted_tables, pos>>
           ELSE /\ extracted_tables' = extracted_tables \o
                       PdfPageTables(page, page_idx + 1, args.min_rows, args.min_cols)
                /\ pos' = pos + 1
                /\ UNCHANGED <<pc, stderr, exit>>
    /\ UNCHANGED <<inputs, args, pages, page_indices, opened, stdout>>

\* doc = Document(docx_path); any failure is re-raised as ValueError
DocxOpen ==
    /\ pc = "open" /\ tool = "docx"
    /\ opened' = TRUE
    /\ IF doc.open = "ok"
       THEN /\ pos' = 1
            /\ pc' = "loop"
            /\ UNCHANGED <<stderr, exit>>
       ELSE /\ Fail("Failed to open DOCX")
            /\ UNCHANGED pos
    /\ UNCHANGED <<inputs, args, pages, page_indices, extracted_tables, stdout>>

\* one iteration of `for table_idx, table in enumerate(doc.tables)`
DocxTable ==
    /\ pc = "loop" /\ tool = "docx"
    /\ pos <= Len(doc.tables)
    /\ LET table == doc.tables[pos]
       IN  IF table.fails
           THEN /\ Fail("str(e)")
                /\ UNCHANGED <<extracted_tables, pos>>
           ELSE /\ extracted_tables' =
                       IF DocxAccepts(table, args.min_rows, args.min_cols)
                       THEN Append(extracted_tables,
                                   DocxRecord(table, pos - 1, Len(doc.tables)))
                       ELSE extracted_tables
                /\ pos' = pos + 1
                /\ UNCHANGED <<pc, stderr, exit>>
    /\ UNCHANGED <<inputs, args, pages, page_indices, opened, stdout>>

\* print(json.dumps(tables, indent=2)) and the return of main()
Finish ==
    /\ pc = "loop"
    /\ pos > (IF tool = "pdf" THEN Len(page_indices) ELSE Len(doc.tables))
    /\ stdout' = Append(stdout, extracted_tables)
    /\ exit' = <<0>>
    /\ pc' = "done"
    /\ UNCHANGED <<inputs, args, pages, page_indices, pos, extracted_tables,
                   opened, stderr>>

Next ==
    \/ Import
    \/ ParseArgs
    \/ ParsePages
    \/ PdfOpen
    \/ PdfPage
    \/ DocxOpen
    \/ DocxTable
    \/ Finish

\* the state main() starts in, for one command line and one document
Start(sc) ==
    /\ tool = sc.tool
    /\ lib = sc.lib
    /\ argv = sc.argv
    /\ doc = sc.doc
    /\ pc = "import"
    /\ args = [min_rows |-> 2, min_cols |-> 2]
    /\ pages = <<>>
    /\ page_indices = <<>>
    /\ pos = 1
    /\ extracted_tables = <<>>
    /\ opened = FALSE
    /\ stdout = <<>>
    /\ stderr = <<>>
    /\ exit = <<>>

\* ------------------------------------------------------------------------
\* Command lines and documents
\* ------------------------------------------------------------------------

MaxRows == 2          \* rows of a raw table (filtering runs)
MaxHeaderCols == 5    \* cells of a first row (header runs)
MaxPages == 2         \* pages of a PDF (ordering runs)
MaxTables == 12       \* tables of a DOCX document (section runs)

Absent == [given |-> FALSE, text |-> <<>>]
Opt(t) == [given |-> TRUE, text |-> t]
Argv(pg, mr, mc) == [input |-> TRUE, pages |-> pg, minRows |-> mr, minCols |-> mc]
DefaultArgv == Argv(Absent, Absent, Absent)

SeqsUpTo(S, n) == UNION {[1..k -> S] : k \in 0..n}
SeqsFrom(S, lo, hi) == UNION {[1..k -> S] : k \in lo..hi}

None == [some |-> FALSE, text |-> <<>>]
Txt(t) == [some |-> TRUE, text |-> t]
TxtRow(row) == [i \in 1..Len(row) |-> Txt(row[i])]
TxtTable(t) == [i \in 1..Len(t) |-> TxtRow(t[i])]

Page(tbls) == [tables |-> tbls, fails |-> FALSE, width |-> 612, height |-> 792]
FailingPage == [tables |-> <<>>, fails |-> TRUE, width |-> 612, height |-> 792]
PdfDoc(pgs) == [open |-> "ok", pages |-> pgs, tables |-> <<>>]
NoDoc(why) == [open |-> why, pages |-> <<>>, tables |-> <<>>]

\* len(table.columns): the widest row of the grid
GridCols(rows) ==
    IF rows = <<>> THEN 0
    ELSE CHOOSE w \in {Len(rows[i]) : i \in 1..Len(rows)} :
             \A i \in 1..Len(rows) : Len(rows[i]) <= w
DocxTbl(rows) == [rows |-> rows, columns |-> GridCols(rows), fails |-> FALSE]
FailingTbl == [rows |-> <<>>, columns |-> 0, fails |-> TRUE]
DocxDoc(tbls) == [open |-> "ok", pages |-> <<>>, tables |-> tbls]

Run(t, av, d) == [tool |-> t, lib |-> TRUE, argv |-> av, doc |-> d]

\* three small tables: two that pass the default thresholds, one that does not
TableA == << <<<<"a">>, <<"b">>>>, <<<<"1">>, <<"2">>>> >>
TableB == << <<<<"c">>, <<" ">>>>, <<<<"d">>>> >>
TableR == << <<<<"e">>, <<"f">>>> >>

\* runs that end early, and one plain run of each tool
CommonRuns ==
    {[tool |-> t, lib |-> FALSE, argv |-> DefaultArgv, doc |-> NoDoc("missing")] :
        t \in {"pdf", "docx"}}
    \cup {Run(t, [DefaultArgv EXCEPT !.input = FALSE], NoDoc("missing")) :
        t \in {"pdf", "docx"}}
    \cup {Run(t, Argv(Absent, Opt(<<"x">>), Absent), NoDoc("missing")) :
        t \in {"pdf", "docx"}}
    \cup {Run(t, Argv(Absent, Absent, Opt(<<>>)), NoDoc("missing")) :
        t \in {"pdf", "docx"}}
    \cup {Run(t, DefaultArgv, NoDoc(why)) :
        t \in {"pdf", "docx"}, why \in {"missing", "corrupt"}}
    \cup {Run("pdf", Argv(Opt(<<"x">>), Absent, Absent), PdfDoc(<<Page(<<TxtTable(TableA)>>)>>)),
          Run("pdf", DefaultArgv, PdfDoc(<<Page(<<TxtTable(TableA)>>), FailingPage>>)),
          Run("pdf", DefaultArgv, PdfDoc(<<Page(<<TxtTable(TableA)>>)>>)),
          Run("docx", DefaultArgv, DocxDoc(<<DocxTbl(TableA), FailingTbl>>)),
          Run("docx", DefaultArgv, DocxDoc(<<DocxTbl(TableA)>>))}

\* filtering runs: one raw table, every shape up to MaxRows rows of 0..2 cells
PdfCells == {None, Txt(<<" ">>), Txt(<<" ", "a", " ">>)}
DocxCells == {<<>>, <<" ">>, <<" ", "a", " ">>}
RowThresholds == {Absent, Opt(<<"0">>), Opt(<<"1">>)}
ColThresholds == {Absent, Opt(<<"-", "1">>), Opt(<<"1">>)}

FilterRuns ==
    {Run("pdf", Argv(Absent, mr, mc), PdfDoc(<<Page(<<t>>)>>)) :
        t \in SeqsUpTo(SeqsUpTo(PdfCells, 2), MaxRows),
        mr \in RowThresholds, mc \in ColThresholds}
    \cup {Run("docx", Argv(Absent, mr, mc), DocxDoc(<<DocxTbl(t)>>)) :
        t \in SeqsUpTo(SeqsUpTo(DocxCells, 2), MaxRows),
        mr \in RowThresholds, mc \in ColThresholds}

\* header runs: a first row of text and number cells, then at most one row
HeaderCells == {<<"a">>, <<"1">>}
OddCells == {<<>>, <<" ">>, <<"-", "1", ".">>, <<"$", "1", ",", "1", "%">>,
             <<"1", " ", "1">>, <<".">>, <<"N", "/", "A">>}
FirstRows == SeqsFrom(HeaderCells, 1, MaxHeaderCols) \cup SeqsFrom(OddCells, 1, 2)
LaterRows == {<<>>, <<<<<<"1">>>>>>, <<<<<<"a">>, <<"b">>>>>>}
HeaderArgv == Argv(Absent, Opt(<<"1">>), Opt(<<"1">>))

HeaderRuns ==
    {Run("pdf", HeaderArgv, PdfDoc(<<Page(<<TxtTable(<<r>> \o l)>>)>>)) :
        r \in FirstRows, l \in LaterRows}
    \cup {Run("docx", HeaderArgv, DocxDoc(<<DocxTbl(<<r>> \o l)>>)) :
        r \in FirstRows, l \in LaterRows}

\* ordering runs: up to MaxPages pages of a few kinds, and page lists
PageKinds == {Page(<<>>), Page(<<TxtTable(TableA)>>),
              Page(<<TxtTable(TableR), TxtTable(TableA)>>),
              Page(<<TxtTable(TableA), TxtTable(TableB)>>),
              FailingPage}
PageLists == {Absent, Opt(<<>>), Opt(<<"1">>), Opt(<<"2", ",", "1">>),
              Opt(<<"1", ",", "1">>), Opt(<<"0", ",", "3", ",", "2">>),
              Opt(<<" ", "1", " ", ",", "2">>), Opt(<<"1", ",", "x">>),
              Opt(<<"1", ",", ",", "2">>), Opt(<<"-", "1">>), Opt(<<" ">>)}
DocxKinds == {DocxTbl(TableA), DocxTbl(TableB), DocxTbl(TableR)}

OrderRuns ==
    {Run("pdf", Argv(pl, Absent, Absent), PdfDoc(pgs)) :
        pl \in PageLists, pgs \in SeqsUpTo(PageKinds, MaxPages)}
    \cup {Run("docx", DefaultArgv, DocxDoc(tbls)) : tbls \in SeqsUpTo(DocxKinds, 3)}

\* section runs: n tables, of which a regular pattern passes the thresholds
Patterns == {"all", "odd", "third", "last", "none"}
Passes(pat, i, n) ==
    CASE pat = "all" -> TRUE
      [] pat = "odd" -> i % 2 = 1
      [] pat = "third" -> i % 3 = 0
      [] pat = "last" -> i = n
      [] pat = "none" -> FALSE
SectionDoc(n, pat) ==
    DocxDoc([i \in 1..n |-> IF Passes(pat, i, n) THEN DocxTbl(TableA) ELSE DocxTbl(TableR)])

SectionRuns ==
    {Run("docx", DefaultArgv, SectionDoc(n, pat)) : n \in 0..MaxTables, pat \in Patterns}

Init == \E sc \in CommonRuns \cup OrderRuns : Start(sc)
InitFilter == \E sc \in CommonRuns \cup FilterRuns : Start(sc)
InitHeader == \E sc \in CommonRuns \cup HeaderRuns : Start(sc)
InitSection == \E sc \in CommonRuns \cup SectionRuns : Start(sc)

Spec == Init /\ [][Next]_vars
SpecFilter == InitFilter /\ [][Next]_vars
SpecHeader == InitHeader /\ [][Next]_vars
SpecSection == InitSection /\ [][Next]_vars

\* ------------------------------------------------------------------------
\* What the properties are stated in: trimming, the surviving rows and the
\* acceptance test, written from the raw table without the extractors' code
\* ------------------------------------------------------------------------

SetMin(S) == CHOOSE x \in S : \A y \in S : x <= y
SetMax(S) == CHOOSE x \in S : \A y \in S : y <= x

\* the text between the first and the last non-blank character
Trimmed(s) ==
    LET solid == {i \in 1..Len(s) : s[i] # " "}
    IN  IF solid = {} THEN <<>> ELSE SubSeq(s, SetMin(solid), SetMax(solid))

\* a raw table with every cell trimmed and None as the empty string
NormPdf(table) ==
    [i \in 1..Len(table) |->
        [j \in 1..Len(table[i]) |->
            IF table[i][j].some THEN Trimmed(table[i][j].text) ELSE <<>>]]

NormDocx(table) ==
    [i \in 1..Len(table.rows) |->
        [j \in 1..Len(table.rows[i]) |-> Trimmed(table.rows[i][j])]]

\* the rows with a non-empty cell
Keep(norm) == {i \in 1..Len(norm) : \E j \in 1..Len(norm[i]) : norm[i][j] # <<>>}

\* the k-th smallest element
Kth(S, k) == CHOOSE x \in S : Cardinality({y \in S : y < x}) = k - 1

FilteredRows(norm) == [k \in 1..Cardinality(Keep(norm)) |-> norm[Kth(Keep(norm), k)]]

\* enough surviving rows, and a first surviving row that is wide enough
Survives(norm, a) ==
    /\ Cardinality(Keep(norm)) >= a.min_rows
    /\ Keep(norm) # {}
    /\ Len(norm[SetMin(Keep(norm))]) >= a.min_cols

\* the raw table a record was made from
RawOf(r) ==
    IF tool = "pdf" THEN doc.pages[r.page].tables[r.metadata.tableIndex + 1]
    ELSE doc.tables[r.metadata.tableIndex + 1]

NormOf(r) == IF tool = "pdf" THEN NormPdf(RawOf(r)) ELSE NormDocx(RawOf(r))

Records == {extracted_tables[k] : k \in 1..Len(extracted_tables)}

Key(r) == <<r.page, r.metadata.tableIndex>>

Keys == [k \in 1..Len(extracted_tables) |-> Key(extracted_tables[k])]

NPages == Len(doc.pages)

\* the keys of the surviving tables of page p, in extract_tables() order
KeysOfPage(p) ==
    LET tbls == doc.pages[p].tables
        hit  == SelectSeq(Indices(Len(tbls)), LAMBDA i : Survives(NormPdf(tbls[i]), args))
    IN  [k \in 1..Len(hit) |-> <<p, hit[k] - 1>>]

RECURSIVE KeysOfPages(_)
KeysOfPages(ps) ==
    IF ps = <<>> THEN <<>> ELSE KeysOfPage(Head(ps)) \o KeysOfPages(Tail(ps))

\* the requested pages that exist, as the page list names them
Requested ==
    IF pages = <<>> THEN Indices(NPages)
    ELSE SelectSeq(pages, LAMBDA p : p >= 1 /\ p <= NPages)

\* the same pages, each once, in document order
RequestedAscending ==
    LET want == {Requested[i] : i \in 1..Len(Requested)}
    IN  [k \in 1..Cardinality(want) |-> Kth(want, k)]

\* ------------------------------------------------------------------------
\* C1
\* ------------------------------------------------------------------------

\* C1: the rows of every record, of either extractor, are exactly the rows of
\* its raw table that have a non-empty cell after trimming, in their order,
\* every cell trimmed and every None cell the empty string.
C1_RowsAreFilteredRaw == \A r \in Records : r.rows = FilteredRows(NormOf(r))

\* a PDF record whose raw table lost an all-empty row and kept a row with a
\* None cell and a padded cell
C1_Witness ==
    \E r \in Records :
        /\ tool = "pdf"
        /\ Len(r.rows) < Len(RawOf(r))
        /\ \E i \in Keep(NormOf(r)) : \E j, k \in 1..Len(RawOf(r)[i]) :
              /\ ~RawOf(r)[i][j].some
              /\ RawOf(r)[i][k].some
              /\ RawOf(r)[i][k].text # Trimmed(RawOf(r)[i][k].text)

\* ------------------------------------------------------------------------
\* C2
\* ------------------------------------------------------------------------

\* C2: no record has an empty rows list, whatever min_rows and min_cols the
\* command line gives (0 and negative values included).
C2_RowsNeverEmpty == \A r \in Records : r.rows # <<>>

\* ------------------------------------------------------------------------
\* C3
\* ------------------------------------------------------------------------

\* C3: a raw table gives a record if and only if the number of surviving rows
\* is >= min_rows and the first surviving row has >= min_cols cells; the
\* lengths of later rows do not matter.
C3_AcceptedIffSurvives ==
    /\ tool = "pdf" =>
          \A q \in 1..(pos - 1) :
              LET p == page_indices[q] + 1 IN
              \A i \in 1..Len(doc.pages[p].tables) :
                  (\E r \in Records : Key(r) = <<p, i - 1>>)
                      <=> Survives(NormPdf(doc.pages[p].tables[i]), args)
    /\ tool = "docx" =>
          \A i \in 1..(pos - 1) :
              (\E r \in Records : r.metadata.tableIndex = i - 1)
                  <=> Survives(NormDocx(doc.tables[i]), args)

\* ------------------------------------------------------------------------
\* C4
\* ------------------------------------------------------------------------

\* C4 as corrected: the PDF records are, for the requested pages that exist,
\* taken in the order the page list names them (a page named twice is gone
\* through twice; document order without a page list), the surviving tables of
\* each page in extract_tables() order; pages outside 1..pageCount are left
\* out without an error and no record has such a page; the whole list is what
\* is printed.  The DOCX records are the surviving tables in doc.tables order.
C4_OrderAsRequested ==
    /\ tool = "pdf" =>
          /\ Keys = KeysOfPages(SubSeq(Requested, 1, pos - 1))
          /\ \A r \in Records :
                /\ r.page \in 1..NPages
                /\ pages # <<>> => \E i \in 1..Len(pages) : pages[i] = r.page
          /\ exit = <<0>> =>
                /\ pos - 1 = Len(Requested)
                /\ stdout = <<extracted_tables>>
    /\ tool = "docx" =>
          /\ Keys = [k \in 1..Len(extracted_tables) |->
                        <<estimate_section(extracted_tables[k].metadata.tableIndex,
                                           Len(doc.tables)),
                          extracted_tables[k].metadata.tableIndex>>]
          /\ [k \in 1..Len(Keys) |-> Keys[k][2] + 1]
                = SelectSeq(Indices(pos - 1),
                            LAMBDA i : Survives(NormDocx(doc.tables[i]), args))
          /\ exit = <<0>> =>
                /\ pos - 1 = Len(doc.tables)
                /\ stdout = <<extracted_tables>>

\* a finished run of --pages 2,1 that printed a table of page 2 before a table
\* of page 1
C4_Witness ==
    /\ tool = "pdf" /\ exit = <<0>>
    /\ pages = <<2, 1>>
    /\ Len(extracted_tables) >= 2
    /\ extracted_tables[1].page = 2
    /\ extracted_tables[Len(extracted_tables)].page = 1

\* C4 as stated: the PDF output is, for the processed pages in ascending
\* document order, each page's surviving tables once.
C4_AscendingEachOnce ==
    (tool = "pdf" /\ exit = <<0>>) => Keys = KeysOfPages(RequestedAscending)

\* ------------------------------------------------------------------------
\* C5
\* ------------------------------------------------------------------------

\* C5: a finished run is a success (the table array on standard output,
\* nothing on standard error, exit code 0) or an error (one JSON error object
\* on standard error, nothing on standard output, exit code 1).
C5_TwoOutcomes ==
    pc = "done" =>
        \/ exit = <<0>> /\ stdout = <<extracted_tables>> /\ stderr = <<>>
        \/ exit = <<1>> /\ stdout = <<>> /\ Len(stderr) = 1 /\ stderr[1].json

\* ------------------------------------------------------------------------
\* C6
\* ------------------------------------------------------------------------

\* C6: the metadata of every record, of either source, has the table's index
\* and the raw row and column counts of the unfiltered table; PDF records
\* have the page width and height as well.
C6_MetadataHasRawCounts ==
    \A r \in Records :
        /\ {"tableIndex", "rowCount", "colCount"} \subseteq DOMAIN r.metadata
        /\ tool = "pdf" => {"pageWidth", "pageHeight"} \subseteq DOMAIN r.metadata
        /\ r.metadata.rowCount = (IF tool = "pdf" THEN Len(RawOf(r)) ELSE Len(RawOf(r).rows))
        /\ tool = "docx" => r.metadata.colCount = RawOf(r).columns

\* ------------------------------------------------------------------------
\* C7
\* ------------------------------------------------------------------------

Uniform(rows) == \A i, j \in 1..Len(rows) : Len(rows[i]) = Len(rows[j])

FullyFilled(rows) == \A i \in 1..Len(rows) : \A j \in 1..Len(rows[i]) : rows[i][j] # <<>>

\* C7: the confidence is 0.0 without rows, lies in 0.0 .. 1.0, and a uniform,
\* fully filled DOCX table scores exactly 1.0 (0.6 + 0.3 + 0.1 x 1.0).
C7_FullDocxTableScoresOne ==
    \A r \in Records :
        /\ r.rows = <<>> => r.confidence = DZero
        /\ DLe(DZero, r.confidence) /\ DLe(r.confidence, DOne)
        /\ (tool = "docx" /\ r.rows # <<>> /\ SumLens(r.rows) > 0
                /\ Uniform(r.rows) /\ FullyFilled(r.rows))
              => r.confidence = DOne

\* ------------------------------------------------------------------------
\* C8
\* ------------------------------------------------------------------------

NonNumericCells(row) == {j \in 1..Len(row) : ~is_numeric(row[j])}

\* C8: hasHeader is false with fewer than 2 rows; otherwise it is true exactly
\* when the non-numeric cells of the first row are at least 0.6 of its length
\* (10 x count >= 6 x length), whatever the other rows hold; the PDF and the
\* DOCX detector agree on the same rows.
C8_HeaderRule ==
    \A r \in Records :
        /\ r.hasHeader <=>
              /\ Len(r.rows) >= 2
              /\ 10 * Cardinality(NonNumericCells(r.rows[1])) >= 6 * Len(r.rows[1])
        /\ detect_header(r.rows) = detect_header_docx(r.rows)

\* a header found on the boundary: 3 non-numeric cells of 5
C8_Witness ==
    \E r \in Records :
        /\ Len(r.rows) >= 2
        /\ Len(r.rows[1]) = 5
        /\ Cardinality(NonNumericCells(r.rows[1])) = 3
        /\ r.hasHeader

\* ------------------------------------------------------------------------
\* C9
\* ------------------------------------------------------------------------

\* C9: in a DOCX document of N tables the record of the table at index i has
\* location i + 1 when N <= 5 and floor(i / 5) + 1 when N > 5; locations are
\* >= 1 and never decrease along the output; 3 surviving tables of 3 give
\* <<1, 2, 3>>.
C9_SectionOfIndex ==
    tool = "docx" =>
        LET n == Len(doc.tables) IN
        /\ \A r \in Records :
              LET i == r.metadata.tableIndex IN
              /\ n <= 5 => r.page = i + 1
              /\ n > 5 => 5 * (r.page - 1) <= i /\ i <= 5 * (r.page - 1) + 4
              /\ r.page >= 1
        /\ \A k \in 1..(Len(extracted_tables) - 1) :
              extracted_tables[k].page <= extracted_tables[k + 1].page
        /\ (n = 3 /\ Len(extracted_tables) = 3) =>
              [k \in 1..3 |-> extracted_tables[k].page] = <<1, 2, 3>>

\* the twelfth table of twelve, in section 3
C9_Witness ==
    /\ tool = "docx" /\ Len(doc.tables) = 12
    /\ \E r \in Records : r.metadata.tableIndex = 11 /\ r.page = 3

\* ------------------------------------------------------------------------
\* C10
\* ------------------------------------------------------------------------

HasBadToken(text) ==
    \E i \in 1..Len(PageTokens(text)) : ~IntParses(PageTokens(text)[i])

====
